---- MODULE Spec2Model ----
(***************************************************************************)
(* A model of test-agent.py: a module that builds one Agent, registers     *)
(* five tools on it with the @agent.tool decorator, and exports it as      *)
(* root_agent.  The tools are hello_world, get_system_info, calculate,     *)
(* echo_message and greet.                                                 *)
(*                                                                         *)
(* Text is modelled as a sequence of one-character strings, so that        *)
(* str.replace, the whitelist test, eval and the f-strings are computed    *)
(* character by character.  The only exception is the text of an exception *)
(* (str(e)), whose wording belongs to the interpreter: it is kept as one   *)
(* opaque element naming the exception's class.                            *)
(***************************************************************************)
EXTENDS Integers, Sequences, FiniteSets, TLC

(* ------------------------------ state ---------------------------------- *)

VARIABLES
    pc,          \* the next top-level statement of the module, "loaded" at its end
    heap,        \* the Agent objects built so far, each with its list of tools
    agent,       \* the object the name agent is bound to (0: unbound)
    root_agent,  \* the object the name root_agent is bound to (0: unbound)
    host,        \* what sys and platform report on this host
    input,       \* the argument of the calculator runs
    history      \* the tool invocations so far, oldest first

vars == <<pc, heap, agent, root_agent, host, input, history>>

(* ----------------------------- bounds --------------------------------- *)

\* Longest expression/message enumerated exhaustively over Alphabet.
MaxLen == 3

\* Longest history of tool invocations explored after the module has loaded.
MaxCalls == 3

\* Largest magnitude of an int, or of a float's decimal mantissa, that the
\* model computes exactly.  Results beyond it are Unmodelled (or, for an
\* int power, known only by their number of digits).
IntCap == 100000000

\* Largest number of decimals of a float that the model carries.
MaxExp == 8

\* Longest tuple the model builds by repetition.
MaxTuple == 8

(* ------------------------------ text ---------------------------------- *)

DigitChars == {"0", "1", "2", "3", "4", "5", "6", "7", "8", "9"}

DigitSeq == <<"0", "1", "2", "3", "4", "5", "6", "7", "8", "9">>

DigitVal(c) == (CHOOSE i \in 1..10 : DigitSeq[i] = c) - 1

Abs(n) == IF n < 0 THEN -n ELSE n

Max2(a, b) == IF a >= b THEN a ELSE b

RECURSIVE Pow10(_)
Pow10(n) == IF n = 0 THEN 1 ELSE 10 * Pow10(n - 1)

RECURSIVE Pow5(_)
Pow5(n) == IF n = 0 THEN 1 ELSE 5 * Pow5(n - 1)

RECURSIVE Gcd(_, _)
Gcd(a, b) == IF b = 0 THEN a ELSE Gcd(b, a % b)

\* Python's floor division of ints (the divisor is not zero).
FloorDivInt(a, b) == IF b > 0 THEN a \div b ELSE (-a) \div (-b)

\* Whether a * b stays within IntCap, for a, b >= 0, tested without overflow.
MulFits(a, b) == a = 0 \/ b <= IntCap \div a

\* Decimal digits of n >= 0, as text.
RECURSIVE NatStr(_)
NatStr(n) == IF n < 10 THEN <<DigitSeq[n + 1]>>
             ELSE NatStr(n \div 10) \o <<DigitSeq[(n % 10) + 1]>>

\* str(n) for an int n.
IntStr(n) == IF n < 0 THEN <<"-">> \o NatStr(-n) ELSE NatStr(n)

\* The value of a run of decimal digits.
RECURSIVE DigitsVal(_)
DigitsVal(ds) == IF ds = <<>> THEN 0
                 ELSE 10 * DigitsVal(SubSeq(ds, 1, Len(ds) - 1)) + DigitVal(ds[Len(ds)])

RECURSIVE Zeros(_)
Zeros(n) == IF n <= 0 THEN <<>> ELSE <<"0">> \o Zeros(n - 1)

\* Whether text s has the text w at position i.
HasAt(s, w, i) == /\ i + Len(w) - 1 <= Len(s)
                  /\ \A j \in 1..Len(w) : s[i + j - 1] = w[j]

\* s.replace(old, new) from position i on: every non-overlapping occurrence
\* of old, found left to right, becomes new.
RECURSIVE ReplaceFrom(_, _, _, _)
ReplaceFrom(s, old, new, i) ==
    IF i > Len(s) THEN <<>>
    ELSE IF HasAt(s, old, i) THEN new \o ReplaceFrom(s, old, new, i + Len(old))
    ELSE <<s[i]>> \o ReplaceFrom(s, old, new, i + 1)

Replace(s, old, new) == ReplaceFrom(s, old, new, 1)

(* ------------------------ values of eval ------------------------------ *)

\* The objects an expression over the whitelisted characters can evaluate
\* to: int, float, tuple and Ellipsis.  A float is kept as the decimal
\* (-1)^neg * m / 10^e that its repr shows (m without trailing zeros when
\* e > 0); it is Exact when that decimal is a binary fraction, so that
\* arithmetic on it involves no rounding.  An int too large for the model
\* is kept as a range [lo, hi] for its number of decimal digits.
IntV(v) == [k |-> "int", v |-> v]

BigIntV(lo, hi) == [k |-> "bigint", lo |-> lo, hi |-> hi]

TupleV(items) == [k |-> "tuple", items |-> items]

EllipsisV == [k |-> "ellipsis"]

\* An exception of class cls raised while evaluating or formatting.
Exc(cls) == [k |-> "exc", cls |-> cls]

\* An outcome the model does not compute (IEEE rounding, complex numbers,
\* magnitudes beyond IntCap).  Inputs leading to it are left out of Inputs.
Unmodelled == [k |-> "unmodelled"]

RECURSIVE NormFloat(_, _, _)
NormFloat(neg, m, e) ==
    IF m = 0 THEN [k |-> "float", neg |-> neg, m |-> 0, e |-> 0]
    ELSE IF e > 0 /\ m % 10 = 0 THEN NormFloat(neg, m \div 10, e - 1)
    ELSE [k |-> "float", neg |-> neg, m |-> m, e |-> e]

FloatV(neg, m, e) == NormFloat(neg, m, e)

IsNum(a) == a.k \in {"int", "float"}

Stops(a) == a.k \in {"exc", "unmodelled"}

\* float(a) for an int or a float a.
ToFloat(a) == IF a.k = "int" THEN FloatV(a.v < 0, Abs(a.v), 0) ELSE a

\* The double is exactly the decimal shown.
Exact(f) == f.e <= MaxExp /\ f.m % Pow5(f.e) = 0

\* The decimal's mantissa at exponent E >= f.e fits the model.
ScaleFits(f, E) == E <= MaxExp /\ f.m <= IntCap \div Pow10(E - f.e)

Scaled(f, E) == (IF f.neg THEN -1 ELSE 1) * f.m * Pow10(E - f.e)

FloatNeg(f) == [f EXCEPT !.neg = ~f.neg]

FloatAdd(a, b) ==
    LET E == Max2(a.e, b.e) IN
    IF ~(Exact(a) /\ Exact(b) /\ ScaleFits(a, E) /\ ScaleFits(b, E)) THEN Unmodelled
    ELSE LET s == Scaled(a, E) + Scaled(b, E) IN
         IF Abs(s) > IntCap THEN Unmodelled
         ELSE IF s = 0 THEN FloatV(a.neg /\ b.neg, 0, 0)
         ELSE FloatV(s < 0, Abs(s), E)

FloatMul(a, b) ==
    IF ~(Exact(a) /\ Exact(b) /\ MulFits(a.m, b.m) /\ a.e + b.e <= MaxExp) THEN Unmodelled
    ELSE FloatV(a.neg # b.neg, a.m * b.m, a.e + b.e)

\* The least e <= MaxExp with d dividing 10^e, or -1.
RECURSIVE DecimalsFrom(_, _)
DecimalsFrom(d, e) == IF e > MaxExp THEN -1
                      ELSE IF Pow10(e) % d = 0 THEN e
                      ELSE DecimalsFrom(d, e + 1)

\* The correctly rounded double num / den (num >= 0, den > 0), when the
\* quotient is a decimal of at most MaxExp decimals within IntCap: the
\* double nearest to a decimal of at most 15 digits has that decimal as repr.
Quot(neg, num, den) ==
    LET g == Gcd(num, den)
        n == num \div g
        d == den \div g
        e == DecimalsFrom(d, 0)
    IN  IF e < 0 \/ ~MulFits(n, Pow10(e) \div d) THEN Unmodelled
        ELSE FloatV(neg, n * (Pow10(e) \div d), e)

FloatDiv(a, b) ==
    IF b.m = 0 THEN Exc("ZeroDivisionError")
    ELSE IF ~(Exact(a) /\ Exact(b) /\ a.e <= MaxExp /\ b.e <= MaxExp
              /\ MulFits(a.m, Pow10(b.e)) /\ MulFits(b.m, Pow10(a.e))) THEN Unmodelled
    ELSE Quot(a.neg # b.neg, a.m * Pow10(b.e), b.m * Pow10(a.e))

\* float.__floordiv__: floor of the quotient, a zero taking the quotient's sign.
FloatFloorDiv(a, b) ==
    LET E == Max2(a.e, b.e) IN
    IF b.m = 0 THEN Exc("ZeroDivisionError")
    ELSE IF ~(Exact(a) /\ Exact(b) /\ ScaleFits(a, E) /\ ScaleFits(b, E)) THEN Unmodelled
    ELSE LET q == FloorDivInt(Scaled(a, E), Scaled(b, E)) IN
         IF q = 0 THEN FloatV(a.neg # b.neg, 0, 0) ELSE FloatV(q < 0, Abs(q), 0)

\* a^b for a >= 2, b >= 0, counting up from acc = a^i; -1 once past IntCap.
RECURSIVE PowUp(_, _, _, _)
PowUp(a, b, i, acc) == IF i = b THEN acc
                       ELSE IF ~MulFits(acc, a) THEN -1
                       ELSE PowUp(a, b, i + 1, acc * a)

\* |a|^b for b >= 0, or -1 once past IntCap.
NatPow(a, b) == IF b = 0 THEN 1
                ELSE IF a <= 1 THEN a
                ELSE PowUp(a, b, 0, 1)

\* int ** int.
IntPow(a, b) ==
    LET neg == a < 0 /\ b % 2 = 1
        p == NatPow(Abs(a), Abs(b))
        d == Len(NatStr(Abs(a)))
    IN  IF b >= 0
        THEN IF p >= 0 THEN IntV(IF neg THEN -p ELSE p)
             ELSE IF b > IntCap \div 10 THEN Unmodelled
             ELSE BigIntV((d - 1) * b + 1, d * b)
        ELSE IF a = 0 THEN Exc("ZeroDivisionError")
             ELSE IF p < 0 THEN Unmodelled
             ELSE Quot(neg, 1, p)

\* float ** float, computed where the exponent is a whole number.
FloatPow(a, b) ==
    LET n == b.m
        odd == n % 2 = 1
        m == NatPow(a.m, n)
        neg == a.neg /\ odd
    IN  IF ~(Exact(a) /\ b.e = 0) THEN Unmodelled
        ELSE IF n = 0 THEN FloatV(FALSE, 1, 0)
        ELSE IF m < 0 \/ ~MulFits(a.e, n) \/ a.e * n > MaxExp THEN Unmodelled
        ELSE IF ~b.neg THEN FloatV(neg, m, a.e * n)
        ELSE IF a.m = 0 THEN Exc("ZeroDivisionError")
        ELSE Quot(neg, Pow10(a.e * n), m)

RECURSIVE Repeat(_, _)
Repeat(items, n) == IF n <= 0 THEN <<>> ELSE items \o Repeat(items, n - 1)

\* tuple * int: the items repeated n times, none when n <= 0.
TupleMul(items, n) ==
    IF n <= 0 \/ items = <<>> THEN TupleV(<<>>)
    ELSE IF n > MaxTuple \/ n * Len(items) > MaxTuple THEN Unmodelled
    ELSE TupleV(Repeat(items, n))

\* The binary operators +, -, *, /, //, ** on two evaluated operands.
Arith(op, a, b) ==
    IF a.k = "bigint" \/ b.k = "bigint" THEN Unmodelled
    ELSE IF a.k = "int" /\ b.k = "int" THEN
        CASE op = "+" -> IF Abs(a.v + b.v) > IntCap THEN Unmodelled ELSE IntV(a.v + b.v)
          [] op = "-" -> IF Abs(a.v - b.v) > IntCap THEN Unmodelled ELSE IntV(a.v - b.v)
          [] op = "*" -> IF ~MulFits(Abs(a.v), Abs(b.v)) THEN Unmodelled ELSE IntV(a.v * b.v)
          [] op = "/" -> FloatDiv(ToFloat(a), ToFloat(b))
          [] op = "//" -> IF b.v = 0 THEN Exc("ZeroDivisionError")
                          ELSE IntV(FloorDivInt(a.v, b.v))
          [] op = "**" -> IntPow(a.v, b.v)
    ELSE IF IsNum(a) /\ IsNum(b) THEN
        LET x == ToFloat(a)
            y == ToFloat(b)
        IN  CASE op = "+" -> FloatAdd(x, y)
              [] op = "-" -> FloatAdd(x, FloatNeg(y))
              [] op = "*" -> FloatMul(x, y)
              [] op = "/" -> FloatDiv(x, y)
              [] op = "//" -> FloatFloorDiv(x, y)
              [] op = "**" -> FloatPow(x, y)
    ELSE IF op = "+" /\ a.k = "tuple" /\ b.k = "tuple" THEN TupleV(a.items \o b.items)
    ELSE IF op = "*" /\ a.k = "tuple" /\ b.k = "int" THEN TupleMul(a.items, b.v)
    ELSE IF op = "*" /\ a.k = "int" /\ b.k = "tuple" THEN TupleMul(b.items, a.v)
    ELSE Exc("TypeError")

\* Evaluating a then b: the first exception (or unmodelled outcome) decides.
BinOp(op, a, b) == IF Stops(a) THEN a ELSE IF Stops(b) THEN b ELSE Arith(op, a, b)

\* The unary operators + and -.
UnaryOp(op, a) ==
    IF Stops(a) THEN a
    ELSE IF a.k = "bigint" THEN Unmodelled
    ELSE IF a.k = "int" THEN (IF op = "-" THEN IntV(-a.v) ELSE a)
    ELSE IF a.k = "float" THEN (IF op = "-" THEN FloatNeg(a) ELSE a)
    ELSE Exc("TypeError")

(* --------------------------- str(value) ------------------------------- *)

\* The interpreter's default limit on the digits of an int converted to
\* text (sys.int_info.default_max_str_digits); the f-string of calculate
\* converts the result.
IntMaxStrDigits == 4300

\* repr of a float: the shortest decimal that reads back as the same double,
\* in exponent notation below 1e-04 (magnitudes from 1e16 on are beyond IntCap).
FloatStr(f) ==
    LET ds == NatStr(f.m)
        nd == Len(ds)
        decpt == nd - f.e
        sign == IF f.neg THEN <<"-">> ELSE <<>>
        ex == 1 - decpt
    IN  sign \o
        (IF f.m = 0 THEN <<"0", ".", "0">>
         ELSE IF decpt <= -4 THEN
             <<ds[1]>> \o (IF nd > 1 THEN <<".">> \o SubSeq(ds, 2, nd) ELSE <<>>)
             \o <<"e", "-">> \o (IF ex < 10 THEN <<"0">> ELSE <<>>) \o NatStr(ex)
         ELSE IF decpt <= 0 THEN <<"0", ".">> \o Zeros(-decpt) \o ds
         ELSE IF decpt >= nd THEN ds \o <<".", "0">>
         ELSE SubSeq(ds, 1, decpt) \o <<".">> \o SubSeq(ds, decpt + 1, nd))

StrOk(s) == [k |-> "str", s |-> s]

\* str(v): the text, or the exception the conversion raises.
RECURSIVE Str(_)
RECURSIVE StrItems(_, _)
Str(v) ==
    CASE v.k = "int" -> StrOk(IntStr(v.v))
      [] v.k = "float" -> StrOk(FloatStr(v))
      [] v.k = "ellipsis" -> StrOk(<<"E", "l", "l", "i", "p", "s", "i", "s">>)
      [] v.k = "bigint" -> IF v.lo > IntMaxStrDigits THEN Exc("ValueError") ELSE Unmodelled
      [] v.k = "tuple" ->
            LET inner == StrItems(v.items, 1) IN
            IF Stops(inner) THEN inner
            ELSE StrOk(<<"(">> \o inner.s
                       \o (IF Len(v.items) = 1 THEN <<",">> ELSE <<>>) \o <<")">>)
      [] OTHER -> v

\* The items from the i-th on, separated by ", ".
StrItems(items, i) ==
    IF i > Len(items) THEN StrOk(<<>>)
    ELSE LET head == Str(items[i]) IN
         IF Stops(head) THEN head
         ELSE LET tail == StrItems(items, i + 1) IN
              IF Stops(tail) THEN tail
              ELSE StrOk(head.s \o (IF i < Len(items) THEN <<",", " ">> ELSE <<>>) \o tail.s)

\* str(e) of a caught exception: the interpreter's wording, kept opaque.
ExcStr(e) == <<"<" \o e.cls \o ">">>

(* ----------------------- eval: the tokenizer -------------------------- *)

\* The characters the whitelist of calculate lets through to eval.
allowed_chars == DigitChars \cup {"+", "-", "*", "/", "(", ")", ".", ",", " "}

\* The first position from i on that holds no digit.
RECURSIVE DigitsEnd(_, _)
DigitsEnd(s, i) == IF i <= Len(s) /\ s[i] \in DigitChars THEN DigitsEnd(s, i + 1) ELSE i

OpTok(t) == [t |-> t, v |-> EllipsisV]

NumTok(v) == [t |-> "num", v |-> v]

\* A decimal integer literal: a nonzero literal may not start with 0.
IntLiteral(ds) ==
    IF Len(ds) > 1 /\ ds[1] = "0" /\ \E j \in 1..Len(ds) : ds[j] # "0" THEN OpTok("bad")
    ELSE IF Len(ds) > MaxExp THEN OpTok("unmodelled")
    ELSE NumTok(IntV(DigitsVal(ds)))

\* A float literal, digits "." digits, either part possibly empty.
FloatLiteral(ip, fp) ==
    IF Len(ip) + Len(fp) > MaxExp THEN OpTok("unmodelled")
    ELSE NumTok(FloatV(FALSE, DigitsVal(ip \o fp), Len(fp)))

\* The tokens of s from position i on.  Blanks separate tokens; the longest
\* operator is taken ("**", "//", "..."); a "." is part of a number when a
\* digit precedes or follows it.
RECURSIVE Tokens(_, _)
Tokens(s, i) ==
    IF i > Len(s) THEN <<>>
    ELSE LET c == s[i] IN
    IF c = " " THEN Tokens(s, i + 1)
    ELSE IF c \in DigitChars THEN
        LET j == DigitsEnd(s, i) IN
        IF j <= Len(s) /\ s[j] = "." THEN
            LET j2 == DigitsEnd(s, j + 1) IN
            <<FloatLiteral(SubSeq(s, i, j - 1), SubSeq(s, j + 1, j2 - 1))>> \o Tokens(s, j2)
        ELSE <<IntLiteral(SubSeq(s, i, j - 1))>> \o Tokens(s, j)
    ELSE IF c = "." /\ i < Len(s) /\ s[i + 1] \in DigitChars THEN
        LET j2 == DigitsEnd(s, i + 1) IN
        <<FloatLiteral(<<>>, SubSeq(s, i + 1, j2 - 1))>> \o Tokens(s, j2)
    ELSE IF HasAt(s, <<".", ".", ".">>, i) THEN <<OpTok("...")>> \o Tokens(s, i + 3)
    ELSE IF HasAt(s, <<"*", "*">>, i) THEN <<OpTok("**")>> \o Tokens(s, i + 2)
    ELSE IF HasAt(s, <<"/", "/">>, i) THEN <<OpTok("//")>> \o Tokens(s, i + 2)
    ELSE IF c \in allowed_chars THEN <<OpTok(c)>> \o Tokens(s, i + 1)
    ELSE <<OpTok("unmodelled")>> \o Tokens(s, i + 1)

(* ------------------ eval: the parser and evaluator -------------------- *)

\* The kind of the p-th token, "end" past the last.
At(ts, p) == IF p <= Len(ts) THEN ts[p].t ELSE "end"

\* A parse: whether it succeeded, the next position, and the outcome of
\* evaluating what was parsed (a value, an exception or Unmodelled).
Parsed(p, v) == [ok |-> TRUE, p |-> p, v |-> v]

Fail == [ok |-> FALSE, p |-> 0, v |-> Unmodelled]

\* A parsed list of items up to the closing parenthesis.
ParsedItems(p, items, comma) == [ok |-> TRUE, p |-> p, items |-> items, comma |-> comma]

FailItems == [ok |-> FALSE, p |-> 0, items |-> <<>>, comma |-> FALSE]

\* A tuple display evaluated item by item; a starred item must be iterable.
RECURSIVE BuildTuple(_, _, _)
BuildTuple(items, i, acc) ==
    IF i > Len(items) THEN TupleV(acc)
    ELSE LET it == items[i] IN
         IF Stops(it.v) THEN it.v
         ELSE IF it.star = "" THEN BuildTuple(items, i + 1, Append(acc, it.v))
         ELSE IF it.v.k = "tuple" THEN BuildTuple(items, i + 1, acc \o it.v.items)
         ELSE Exc("TypeError")

\* The arguments of a call evaluated in order: *x needs an iterable, **x a
\* mapping, and no value of this language is a mapping.
RECURSIVE EvalArgs(_, _)
EvalArgs(items, i) ==
    IF i > Len(items) THEN EllipsisV
    ELSE LET it == items[i] IN
         IF Stops(it.v) THEN it.v
         ELSE IF it.star = "**" THEN Exc("TypeError")
         ELSE IF it.star = "*" /\ it.v.k # "tuple" THEN Exc("TypeError")
         ELSE EvalArgs(items, i + 1)

\* f(args): f and the arguments are evaluated, and then the call fails,
\* because no int, float, tuple or Ellipsis is callable.
CallValue(f, items) ==
    IF Stops(f) THEN f
    ELSE LET a == EvalArgs(items, 1) IN
         IF Stops(a) THEN a ELSE Exc("TypeError")

\* The grammar rules below call one another; they are the cases of a single
\* recursive operator, Parse, each reached through the operator of its name.
\* p is the position a rule starts at, a the parse a "rest" rule continues,
\* call and seenD the context of a list of items.
RECURSIVE Parse(_, _, _, _, _, _)

ParseSum(ts, p) == Parse("sum", ts, p, Fail, FALSE, FALSE)

SumRest(ts, a) == Parse("sum_rest", ts, 0, a, FALSE, FALSE)

ParseTerm(ts, p) == Parse("term", ts, p, Fail, FALSE, FALSE)

TermRest(ts, a) == Parse("term_rest", ts, 0, a, FALSE, FALSE)

ParseFactor(ts, p) == Parse("factor", ts, p, Fail, FALSE, FALSE)

ParsePower(ts, p) == Parse("power", ts, p, Fail, FALSE, FALSE)

ParsePrimary(ts, p) == Parse("primary", ts, p, Fail, FALSE, FALSE)

Trailers(ts, a) == Parse("trailers", ts, 0, a, FALSE, FALSE)

ParseAtom(ts, p) == Parse("atom", ts, p, Fail, FALSE, FALSE)

ParseItems(ts, p, call, seenD) == Parse("items", ts, p, Fail, call, seenD)

Parse(rule, ts, p, a, call, seenD) ==
    CASE rule = "items" ->
        \* Items separated by commas up to ")", with an optional trailing
        \* comma: the inside of a tuple display (call = FALSE) or of a call's
        \* parentheses.  An item may be starred; "**" is for calls only, and
        \* nothing but "**" items may follow one.
        LET t == At(ts, p)
            star == IF t \in {"*", "**"} THEN t ELSE ""
            r == ParseSum(ts, IF star = "" THEN p ELSE p + 1)
            item == [star |-> star, v |-> r.v]
            rest == ParseItems(ts, r.p + 1, call, seenD \/ star = "**")
        IN  IF (star = "**" /\ ~call) \/ (seenD /\ star # "**") THEN FailItems
            ELSE IF ~r.ok THEN FailItems
            ELSE IF At(ts, r.p) = ")" THEN ParsedItems(r.p + 1, <<item>>, FALSE)
            ELSE IF At(ts, r.p) # "," THEN FailItems
            ELSE IF At(ts, r.p + 1) = ")" THEN ParsedItems(r.p + 2, <<item>>, TRUE)
            ELSE IF ~rest.ok THEN FailItems
            ELSE ParsedItems(rest.p, <<item>> \o rest.items, TRUE)
      [] rule = "atom" ->
        \* atom: NUMBER | "..." | "(" ")" | group | tuple
        LET t == At(ts, p)
            r == ParseItems(ts, p + 1, FALSE, FALSE)
        IN  IF t = "num" THEN Parsed(p + 1, ts[p].v)
            ELSE IF t = "..." THEN Parsed(p + 1, EllipsisV)
            ELSE IF t # "(" THEN Fail
            ELSE IF At(ts, p + 1) = ")" THEN Parsed(p + 2, TupleV(<<>>))
            ELSE IF ~r.ok THEN Fail
            ELSE IF r.comma THEN Parsed(r.p, BuildTuple(r.items, 1, <<>>))
            ELSE IF r.items[1].star # "" THEN Fail
            ELSE Parsed(r.p, r.items[1].v)
      [] rule = "trailers" ->
        \* The calls that follow a primary: primary "(" [arguments] ")".
        LET r == ParseItems(ts, a.p + 1, TRUE, FALSE) IN
        IF At(ts, a.p) # "(" THEN a
        ELSE IF At(ts, a.p + 1) = ")" THEN
            Trailers(ts, Parsed(a.p + 2, CallValue(a.v, <<>>)))
        ELSE IF ~r.ok THEN Fail
        ELSE Trailers(ts, Parsed(r.p, CallValue(a.v, r.items)))
      [] rule = "primary" ->
        LET x == ParseAtom(ts, p) IN
        IF ~x.ok THEN Fail ELSE Trailers(ts, x)
      [] rule = "power" ->
        \* power: primary ["**" factor]
        LET x == ParsePrimary(ts, p)
            r == ParseFactor(ts, x.p + 1)
        IN  IF ~x.ok THEN Fail
            ELSE IF At(ts, x.p) # "**" THEN x
            ELSE IF ~r.ok THEN Fail
            ELSE Parsed(r.p, BinOp("**", x.v, r.v))
      [] rule = "factor" ->
        \* factor: ("+" | "-") factor | power
        LET t == At(ts, p)
            r == ParseFactor(ts, p + 1)
        IN  IF t \notin {"+", "-"} THEN ParsePower(ts, p)
            ELSE IF ~r.ok THEN Fail
            ELSE Parsed(r.p, UnaryOp(t, r.v))
      [] rule = "term_rest" ->
        \* term: factor (("*" | "/" | "//") factor)*, left to right.
        LET t == At(ts, a.p)
            r == ParseFactor(ts, a.p + 1)
        IN  IF t \notin {"*", "/", "//"} THEN a
            ELSE IF ~r.ok THEN Fail
            ELSE TermRest(ts, Parsed(r.p, BinOp(t, a.v, r.v)))
      [] rule = "term" ->
        LET x == ParseFactor(ts, p) IN
        IF ~x.ok THEN Fail ELSE TermRest(ts, x)
      [] rule = "sum_rest" ->
        \* sum: term (("+" | "-") term)*, left to right.
        LET t == At(ts, a.p)
            r == ParseTerm(ts, a.p + 1)
        IN  IF t \notin {"+", "-"} THEN a
            ELSE IF ~r.ok THEN Fail
            ELSE SumRest(ts, Parsed(r.p, BinOp(t, a.v, r.v)))
      [] rule = "sum" ->
        LET x == ParseTerm(ts, p) IN
        IF ~x.ok THEN Fail ELSE SumRest(ts, x)

\* The tuple of a top-level list of expressions, once parsed.
TupleOfList(r) ==
    IF ~r.ok THEN Fail ELSE Parsed(r.p, BuildTuple(r.items, 1, <<>>))

\* The expressions after the first of a top-level list: ("," expression)* [","].
\* p is at the comma or at the end; r is the parse of what follows the comma.
RECURSIVE MoreExpressions(_, _, _)
NextExpression(ts, p, items, r) ==
    IF At(ts, p) = "end" THEN ParsedItems(p, items, TRUE)
    ELSE IF At(ts, p) # "," THEN FailItems
    ELSE IF At(ts, p + 1) = "end" THEN ParsedItems(p + 1, items, TRUE)
    ELSE IF ~r.ok THEN FailItems
    ELSE MoreExpressions(ts, r.p, Append(items, [star |-> "", v |-> r.v]))

MoreExpressions(ts, p, items) == NextExpression(ts, p, items, ParseSum(ts, p + 1))

\* expressions: one expression (parsed as a), or a tuple written without
\* parentheses, followed by the end of the input.
Expressions(ts, a) ==
    IF ~a.ok THEN Fail
    ELSE IF At(ts, a.p) = "end" THEN a
    ELSE TupleOfList(MoreExpressions(ts, a.p, <<[star |-> "", v |-> a.v]>>))

ParseExpressions(ts) == Expressions(ts, ParseSum(ts, 1))

\* The outcome of a parse of the whole input: a text that does not parse
\* raises SyntaxError before anything is evaluated.
ValueOf(r) == IF ~r.ok THEN Exc("SyntaxError") ELSE r.v

EvalTokens(ts) ==
    IF \E i \in 1..Len(ts) : ts[i].t = "unmodelled" THEN Unmodelled
    ELSE IF \E i \in 1..Len(ts) : ts[i].t = "bad" THEN Exc("SyntaxError")
    ELSE ValueOf(ParseExpressions(ts))

\* eval(s) for a text s: the value, or the exception raised.
Eval(s) == EvalTokens(Tokens(s, 1))

(* --------------------------- the tools -------------------------------- *)

\* The string hello_world returns.
HelloWorldText ==
    <<"H", "e", "l", "l", "o", "!", " ", "T", "h", "i", "s", " ", "i",
      "s", " ", "a", " ", "t", "e", "s", "t", " ", "m", "e", "s", "s",
      "a", "g", "e", " ", "f", "r", "o", "m", " ", "y", "o", "u", "r",
      " ", "G", "o", "o", "g", "l", "e", " ", "A", "D", "K", " ", "a",
      "g", "e", "n", "t", ".", " ", "T", "h", "e", " ", "s", "e", "t",
      "u", "p", " ", "i", "s", " ", "w", "o", "r", "k", "i", "n", "g",
      " ", "c", "o", "r", "r", "e", "c", "t", "l", "y", "!">>

\* The string greet returns.
GreetText ==
    <<"H", "e", "l", "l", "o", "!", " ", "I", "'", "m", " ", "a", " ",
      "t", "e", "s", "t", " ", "a", "g", "e", "n", "t", ".", " ", "H",
      "o", "w", " ", "c", "a", "n", " ", "I", " ", "h", "e", "l", "p",
      " ", "y", "o", "u", " ", "t", "o", "d", "a", "y", "?">>

\* What calculate returns when the whitelist check fails.
NotAllowedText ==
    <<"E", "r", "r", "o", "r", ":", " ", "O", "n", "l", "y", " ", "b",
      "a", "s", "i", "c", " ", "m", "a", "t", "h", " ", "o", "p", "e",
      "r", "a", "t", "i", "o", "n", "s", " ", "a", "r", "e", " ", "a",
      "l", "l", "o", "w", "e", "d">>

\* The pieces of f"Result: {expression} = {result}".
ResultPrefix ==
    <<"R", "e", "s", "u", "l", "t", ":", " ">>

ResultInfix ==
    <<" ", "=", " ">>

\* The pieces of f"Error calculating '{expression}': {str(e)}".
ErrorPrefix ==
    <<"E", "r", "r", "o", "r", " ", "c", "a", "l", "c", "u", "l", "a",
      "t", "i", "n", "g", " ", "'">>

ErrorInfix ==
    <<"'", ":", " ">>

\* The label of f"Echo: {message}".
EchoPrefix ==
    <<"E", "c", "h", "o", ":", " ">>

\* A hello_world that answers like greet once greet has been invoked.
hello_world_after_greet ==
    IF \E i \in 1..Len(history) : history[i].tool = "greet"
    THEN GreetText ELSE HelloWorldText

\* hello_world(): a fixed greeting.
hello_world == HelloWorldText

\* greet(): a fixed greeting.
greet == GreetText

\* A get_system_info that reports the processor where the status belongs.
get_system_info_status_from_host(h) ==
    [python_version |-> h.python_version,
     platform |-> h.platform,
     architecture |-> h.architecture,
     processor |-> h.processor,
     agent_status |-> h.processor]

\* get_system_info(): the host's values under four keys, and agent_status.
get_system_info(h) ==
    [python_version |-> h.python_version,
     platform |-> h.platform,
     architecture |-> h.architecture,
     processor |-> h.processor,
     agent_status |-> "running"]

\* message.strip(): the message without its leading and trailing blanks.
RECURSIVE Strip(_)
Strip(m) == IF m # <<>> /\ m[1] = " " THEN Strip(SubSeq(m, 2, Len(m)))
            ELSE IF m # <<>> /\ m[Len(m)] = " " THEN Strip(SubSeq(m, 1, Len(m) - 1))
            ELSE m

\* An echo_message that strips the message.
echo_message_stripped(message) == EchoPrefix \o Strip(message)

\* An echo_message that keeps the messages it has echoed and returns them all.
echo_message_remembering(message) ==
    EchoPrefix
    \o (IF \E i \in 1..Len(history) : history[i].tool = "echo_message"
        THEN history[CHOOSE i \in 1..Len(history) : history[i].tool = "echo_message"].arg
        ELSE <<>>)
    \o message

\* echo_message(message): the message behind its label.
echo_message(message) == EchoPrefix \o message

\* A rewriting of the boolean literals to numbers.
RewriteBooleansNumeric(expression) ==
    Replace(Replace(expression, <<"f", "a", "l", "s", "e">>, <<"0">>),
            <<"t", "r", "u", "e">>, <<"1">>)

\* expression.replace('false', 'False').replace('true', 'True')
RewriteBooleans(expression) ==
    Replace(Replace(expression, <<"f", "a", "l", "s", "e">>, <<"F", "a", "l", "s", "e">>),
            <<"t", "r", "u", "e">>, <<"T", "r", "u", "e">>)

\* any(...) where all(...) is meant.
PassesCheckAny(expression) == \E i \in 1..Len(expression) : expression[i] \in allowed_chars

\* all(c in allowed_chars for c in expression)
PassesCheck(expression) == \A i \in 1..Len(expression) : expression[i] \in allowed_chars

\* "except ArithmeticError" where "except Exception" is meant.
CaughtArithmeticOnly(cls) == cls \in {"ZeroDivisionError", "OverflowError"}

\* The classes "except Exception" catches: every exception that evaluating or
\* formatting can raise here derives from Exception.
Caught(cls) ==
    cls \in {"SyntaxError", "ZeroDivisionError", "TypeError", "ValueError", "OverflowError"}

\* What one run of calculate did: the text returned (ret), the class of an
\* exception that left the function (raised, "" for none), the text that the
\* f-strings show as the expression, and the trace of the whitelist check and
\* of the call of eval, in the order in which they ran.
Outcome(ret, raised, expression, trace) ==
    [ret |-> ret, raised |-> raised, expression |-> expression, trace |-> trace]

CheckEvent(expression) == [op |-> "check", arg |-> expression, ok |-> PassesCheck(expression)]

EvalEvent(expression) == [op |-> "eval", arg |-> expression, ok |-> TRUE]

\* The f-string's conversion of the result of eval to text; an exception
\* raised by eval is passed on.
Format(result) == IF Stops(result) THEN result ELSE Str(result)

\* The try block after the check: eval, then the f-string that converts the
\* result to text; either may raise.
EvalAndFormat(expression) == Format(Eval(expression))

\* A result string with the value and the expression exchanged.
ReturnSwapped(expression, text, trace) ==
    IF text.k = "str" THEN
        Outcome(ResultPrefix \o text.s \o ResultInfix \o expression, "", expression, trace)
    ELSE IF text.k = "exc" /\ Caught(text.cls) THEN
        Outcome(ErrorPrefix \o expression \o ErrorInfix \o ExcStr(text), "", expression, trace)
    ELSE IF text.k = "exc" THEN Outcome(<<>>, text.cls, expression, trace)
    ELSE Outcome(<<>>, "unmodelled", expression, trace)

\* The return (or the exception) that ends calculate once the check has
\* passed; text is the outcome of EvalAndFormat.
Return(expression, text, trace) ==
    IF text.k = "str" THEN
        Outcome(ResultPrefix \o expression \o ResultInfix \o text.s, "", expression, trace)
    ELSE IF text.k = "exc" /\ Caught(text.cls) THEN
        Outcome(ErrorPrefix \o expression \o ErrorInfix \o ExcStr(text), "", expression, trace)
    ELSE IF text.k = "exc" THEN Outcome(<<>>, text.cls, expression, trace)
    ELSE Outcome(<<>>, "unmodelled", expression, trace)

\* A calculate that evaluates first and checks the characters afterwards.
EvalThenCheck(expression) ==
    IF ~PassesCheck(expression)
    THEN Outcome(NotAllowedText, "", expression,
                 <<EvalEvent(expression), CheckEvent(expression)>>)
    ELSE Return(expression, EvalAndFormat(expression),
                <<EvalEvent(expression), CheckEvent(expression)>>)

\* calculate after the rewriting of the boolean literals: the whitelist
\* check, and then eval and the result string.
CheckThenEval(expression) ==
    IF ~PassesCheck(expression)
    THEN Outcome(NotAllowedText, "", expression, <<CheckEvent(expression)>>)
    ELSE Return(expression, EvalAndFormat(expression),
                <<CheckEvent(expression), EvalEvent(expression)>>)

\* calculate(expression).
calculate(expression) == CheckThenEval(RewriteBooleans(expression))

\* The inputs whose outcome the model computes: a text with a character that
\* eval is never to see, or one that eval and str are modelled on.
ModelledText(expression) ==
    \/ \E i \in 1..Len(expression) : expression[i] \notin allowed_chars
    \/ EvalAndFormat(expression).k # "unmodelled"

Modelled(s) == ModelledText(RewriteBooleans(s))

(* ----------------------------- inputs --------------------------------- *)

\* The characters of the exhaustively enumerated inputs: some digits, every
\* other whitelisted character, and a letter, which the whitelist rejects.
Alphabet == {"0", "1", "2", "+", "-", "*", "/", "(", ")", ".", ",", " ", "x"}

\* The texts over Alphabet of length at most n.
RECURSIVE Strings(_)
Strings(n) == IF n = 0 THEN {<<>>}
              ELSE LET shorter == Strings(n - 1) IN
                   shorter \cup {Append(s, c) : s \in shorter, c \in Alphabet}

\* "true" and "false", alone and with a character before and after.
BooleanWords ==
    LET short == {<<>>} \cup {<<c>> : c \in Alphabet} IN
    {a \o w \o b : a \in short, b \in short,
                   w \in {<<"t", "r", "u", "e">>, <<"f", "a", "l", "s", "e">>}}

\* Longer inputs: the examples of the documentation and of the tests, and
\* expressions whose value is a large int.
Examples ==
    {<<"2", " ", "+", " ", "2">>,
     <<"i", "m", "p", "o", "r", "t", " ", "o", "s">>,
     <<"2", " ", "+">>,
     <<"1", "/", "0">>,
     <<"1", "0", "*", "*", "4", "3", "0", "0">>,
     <<"(", "1", "0", "*", "*", "4", "3", "0", "0", ",", ")">>,
     <<"3", " ", "*", " ", "(", "4", " ", "+", " ", "5", ")">>,
     <<"7", " ", "/", "/", " ", "2">>,
     <<"2", " ", "*", "*", " ", "1", "0">>,
     <<"1", ".", "5", " ", "+", " ", "2", ".", "5">>,
     <<"(", "1", ",", " ", "2", ")">>,
     <<"1", "/", "t", "r", "u", "e">>,
     <<"f", "a", "l", "s", "e", "+", "1">>,
     <<"f", "t", "r", "u", "e", "a", "l", "s", "e">>}

\* The expressions and messages of the calculator runs.
Inputs == {s \in Strings(MaxLen) \cup BooleanWords \cup Examples : Modelled(s)}

\* The arguments of the invocations explored with their history.
SampleInputs ==
    {<<"2", " ", "+", " ", "2">>,
     <<"i", "m", "p", "o", "r", "t", " ", "o", "s">>,
     <<"2", " ", "+">>,
     <<"1", "/", "0">>,
     <<>>}

\* Values read from the host by get_system_info.
Hosts ==
    {[python_version |-> "3.11.6", platform |-> "Linux-6.1-x86_64",
      architecture |-> <<"64bit", "ELF">>, processor |-> "x86_64"],
     [python_version |-> "3.12.1", platform |-> "macOS-14.2-arm64",
      architecture |-> <<"64bit", "">>, processor |-> "arm"]}

(* ------------------------- the state machine -------------------------- *)

\* The names of the tools, in the order of their definitions in the module.
ToolNames == <<"hello_world", "get_system_info", "calculate", "echo_message", "greet">>

\* Agent(name=..., description=..., instructions=..., llm=...): no tools yet.
NewAgent == [name |-> "test_agent", tools |-> <<>>]

\* A registration that puts the new tool first.
tool_first(h, a, name) == [h EXCEPT ![a].tools = <<name>> \o @]

\* @agent.tool applied to the function called name: the object that agent
\* is bound to gains the tool at the end of its list.
tool(h, a, name) == [h EXCEPT ![a].tools = Append(@, name)]

\* The tools an object reference exposes.
ToolsOf(ref) == IF ref = 0 THEN <<>> ELSE heap[ref].tools

\* Before the first statement of the module has run.
Init ==
    /\ pc = "create_agent"
    /\ heap = <<>>
    /\ agent = 0
    /\ root_agent = 0
    /\ host \in Hosts
    /\ input = <<>>
    /\ history = <<>>

\* agent = Agent(...)
CreateAgent ==
    /\ pc = "create_agent"
    /\ heap' = Append(heap, NewAgent)
    /\ agent' = Len(heap) + 1
    /\ pc' = "def_hello_world"
    /\ UNCHANGED <<root_agent, host, input, history>>

\* One decorated definition: @agent.tool def <name>(...).
Define(name, next) ==
    /\ pc = "def_" \o name
    /\ heap' = tool(heap, agent, name)
    /\ pc' = next
    /\ UNCHANGED <<agent, root_agent, host, input, history>>

DefineHelloWorld == Define("hello_world", "def_get_system_info")

DefineGetSystemInfo == Define("get_system_info", "def_calculate")

DefineCalculate == Define("calculate", "def_echo_message")

DefineEchoMessage == Define("echo_message", "def_greet")

DefineGreet == Define("greet", "export")

\* root_agent = agent
ExportRootAgent ==
    /\ pc = "export"
    /\ root_agent' = agent
    /\ pc' = "loaded"
    /\ UNCHANGED <<heap, agent, host, input, history>>

\* The record of one invocation.  arg is the argument (<<>> for a tool that
\* takes none); expression and trace are those of calculate.
Call(name, arg, ret, raised, expression, trace) ==
    [tool |-> name, arg |-> arg, ret |-> ret, raised |-> raised,
     expression |-> expression, trace |-> trace]

\* An invocation returns to the framework and changes nothing else.
Invoke(call) ==
    /\ pc = "loaded"
    /\ history' = Append(history, call)
    /\ UNCHANGED <<pc, heap, agent, root_agent, host, input>>

InvokeHelloWorld == Invoke(Call("hello_world", <<>>, hello_world, "", <<>>, <<>>))

InvokeGetSystemInfo ==
    Invoke(Call("get_system_info", <<>>, get_system_info(host), "", <<>>, <<>>))

Returned(expression, r) ==
    Invoke(Call("calculate", expression, r.ret, r.raised, r.expression, r.trace))

InvokeCalculate(expression) == Returned(expression, calculate(expression))

InvokeEchoMessage(message) ==
    Invoke(Call("echo_message", message, echo_message(message), "", <<>>, <<>>))

InvokeGreet == Invoke(Call("greet", <<>>, greet, "", <<>>, <<>>))

\* The module loads, and then the framework invokes the tools in any order.
Next ==
    \/ CreateAgent
    \/ DefineHelloWorld
    \/ DefineGetSystemInfo
    \/ DefineCalculate
    \/ DefineEchoMessage
    \/ DefineGreet
    \/ ExportRootAgent
    \/ (Len(history) < MaxCalls /\ InvokeHelloWorld)
    \/ (Len(history) < MaxCalls /\ InvokeGetSystemInfo)
    \/ (Len(history) < MaxCalls /\ \E e \in SampleInputs : InvokeCalculate(e))
    \/ (Len(history) < MaxCalls /\ \E m \in SampleInputs : InvokeEchoMessage(m))
    \/ (Len(history) < MaxCalls /\ InvokeGreet)

Spec == Init /\ [][Next]_vars

\* The calculator and the echo tool as functions of their argument: the
\* module has loaded, and one tool is invoked once on an input of Inputs.
InitCalc ==
    /\ pc = "loaded"
    /\ heap = <<[name |-> "test_agent", tools |-> ToolNames]>>
    /\ agent = 1
    /\ root_agent = 1
    /\ host = CHOOSE h \in Hosts : h.processor = "x86_64"
    /\ input \in Inputs
    /\ history = <<>>

NextCalc ==
    \/ (history = <<>> /\ InvokeCalculate(input))
    \/ (history = <<>> /\ InvokeEchoMessage(input))

SpecCalc == InitCalc /\ [][NextCalc]_vars

\* The last invocation, when there is one.
Called == history # <<>>

Last == history[Len(history)]

(* ------------------------------ claims -------------------------------- *)

\* The whitelist as the documentation states it: the digits, + - * / ( ) . ,
\* and the blank.
DocumentedWhitelist ==
    {"0", "1", "2", "3", "4", "5", "6", "7", "8", "9",
     "+", "-", "*", "/", "(", ")", ".", ",", " "}

OnlyWhitelisted(s) == \A i \in 1..Len(s) : s[i] \in DocumentedWhitelist

\* Text s contains the text w.
Contains(s, w) == \E i \in 1..Len(s) : HasAt(s, w, i)

\* The last invocation is calculate.
Calculated == Called /\ Last.tool = "calculate"

TwoPlusTwo == <<"2", " ", "+", " ", "2">>

TwoPlusTwoResult ==
    <<"R", "e", "s", "u", "l", "t", ":", " ", "2", " ", "+", " ", "2",
      " ", "=", " ", "4">>

ImportOs == <<"i", "m", "p", "o", "r", "t", " ", "o", "s">>

OneByZero == <<"1", "/", "0">>

OneByTrue == <<"1", "/", "t", "r", "u", "e">>

NotAllowedExpected ==
    <<"E", "r", "r", "o", "r", ":", " ", "O", "n", "l", "y", " ", "b",
      "a", "s", "i", "c", " ", "m", "a", "t", "h", " ", "o", "p", "e",
      "r", "a", "t", "i", "o", "n", "s", " ", "a", "r", "e", " ", "a",
      "l", "l", "o", "w", "e", "d">>

HelloWorldExpected ==
    <<"H", "e", "l", "l", "o", "!", " ", "T", "h", "i", "s", " ", "i",
      "s", " ", "a", " ", "t", "e", "s", "t", " ", "m", "e", "s", "s",
      "a", "g", "e", " ", "f", "r", "o", "m", " ", "y", "o", "u", "r",
      " ", "G", "o", "o", "g", "l", "e", " ", "A", "D", "K", " ", "a",
      "g", "e", "n", "t", ".", " ", "T", "h", "e", " ", "s", "e", "t",
      "u", "p", " ", "i", "s", " ", "w", "o", "r", "k", "i", "n", "g",
      " ", "c", "o", "r", "r", "e", "c", "t", "l", "y", "!">>

GreetExpected ==
    <<"H", "e", "l", "l", "o", "!", " ", "I", "'", "m", " ", "a", " ",
      "t", "e", "s", "t", " ", "a", "g", "e", "n", "t", ".", " ", "H",
      "o", "w", " ", "c", "a", "n", " ", "I", " ", "h", "e", "l", "p",
      " ", "y", "o", "u", " ", "t", "o", "d", "a", "y", "?">>

\* C1, as stated: for every input of whitelisted characters that is a
\* well-formed expression whose evaluation raises no exception, calculate
\* returns "Result: <expression> = <value>".
C1_ResultForEveryValue ==
    (Calculated /\ OnlyWhitelisted(Last.arg) /\ ~Stops(Eval(Last.arg)))
        => /\ Last.raised = ""
           /\ HasAt(Last.ret, <<"R", "e", "s", "u", "l", "t", ":", " ">> \o Last.arg
                              \o <<" ", "=", " ">>, 1)
           /\ Str(Eval(Last.arg)).k = "str"
                 => Last.ret = <<"R", "e", "s", "u", "l", "t", ":", " ">> \o Last.arg
                                \o <<" ", "=", " ">> \o Str(Eval(Last.arg)).s

\* C1, amended: calculate returns "Result: 2 + 2 = 4" for "2 + 2"; for every
\* input of whitelisted characters that is a well-formed expression whose
\* evaluation raises no exception and whose value converts to text without
\* an exception, calculate returns "Result: <expression> = <value>", the
\* expression being the input and the value the text of what it evaluates to.
C1_ResultWhenValueHasText ==
    /\ (Calculated /\ Last.arg = TwoPlusTwo) => Last.ret = TwoPlusTwoResult
    /\ (Calculated /\ OnlyWhitelisted(Last.arg) /\ ~Stops(Eval(Last.arg))
          /\ Str(Eval(Last.arg)).k = "str")
        => /\ Last.raised = ""
           /\ Last.ret = <<"R", "e", "s", "u", "l", "t", ":", " ">> \o Last.arg
                          \o <<" ", "=", " ">> \o Str(Eval(Last.arg)).s

\* calculate("2 + 2") has returned "Result: 2 + 2 = 4".
C1_Witness ==
    Calculated /\ Last.arg = TwoPlusTwo /\ Last.ret = TwoPlusTwoResult

\* C2: for every input with a character outside the whitelist, calculate
\* returns "Error: Only basic math operations are allowed" and never a
\* "Result: ..." string.
C2_DisallowedCharacterRejected ==
    (Calculated /\ ~OnlyWhitelisted(Last.arg))
        => /\ Last.raised = ""
           /\ Last.ret = NotAllowedExpected
           /\ ~HasAt(Last.ret, <<"R", "e", "s", "u", "l", "t", ":">>, 1)

\* calculate("import os") has returned the whitelist error.
C2_Witness ==
    Calculated /\ Last.arg = ImportOs /\ Last.ret = NotAllowedExpected

\* C3: eval is invoked only after the whitelist check has passed on the same
\* text, so never on a text with a character outside the whitelist.
C3_CheckPrecedesEval ==
    Calculated =>
        \A j \in 1..Len(Last.trace) :
            Last.trace[j].op = "eval"
                => /\ \E i \in 1..(j - 1) : /\ Last.trace[i].op = "check"
                                            /\ Last.trace[i].ok
                                            /\ Last.trace[i].arg = Last.trace[j].arg
                   /\ OnlyWhitelisted(Last.trace[j].arg)

\* calculate("1/0") has checked the text and then called eval on it.
C3_Witness ==
    /\ Calculated /\ Last.arg = OneByZero
    /\ Len(Last.trace) = 2 /\ Last.trace[1].op = "check" /\ Last.trace[2].op = "eval"
    /\ Last.trace[2].arg = OneByZero

\* C4: no exception leaves calculate, and for every whitelisted input whose
\* evaluation raises, calculate returns
\* "Error calculating '<expression>': <exception message>".
C4_EvaluationErrorReturned ==
    /\ Calculated => Last.raised = ""
    /\ (Calculated /\ OnlyWhitelisted(Last.arg) /\ Eval(Last.arg).k = "exc")
        => Last.ret = <<"E", "r", "r", "o", "r", " ", "c", "a", "l", "c", "u", "l", "a",
                        "t", "i", "n", "g", " ", "'">> \o Last.arg \o <<"'", ":", " ">>
                      \o ExcStr(Eval(Last.arg))
    /\ (Calculated /\ Last.arg = OneByZero) => Eval(Last.arg) = Exc("ZeroDivisionError")
    /\ (Calculated /\ Last.arg \in {<<>>, <<"2", " ", "+">>})
        => Eval(Last.arg) = Exc("SyntaxError")

\* calculate("1/0") has returned the error string of the division by zero.
C4_Witness ==
    /\ Calculated /\ Last.arg = OneByZero /\ Last.raised = ""
    /\ Last.ret = <<"E", "r", "r", "o", "r", " ", "c", "a", "l", "c", "u", "l", "a", "t",
                    "i", "n", "g", " ", "'", "1", "/", "0", "'", ":", " ",
                    "<ZeroDivisionError>">>

\* C5: for every message, echo_message returns "Echo: " followed by the
\* message unchanged.
C5_EchoReturnsMessage ==
    (Called /\ Last.tool = "echo_message")
        => /\ Last.raised = ""
           /\ Last.ret = <<"E", "c", "h", "o", ":", " ">> \o Last.arg

\* echo_message has echoed a message with blanks at its ends, which the
\* calculator would reject.
C5_Witness ==
    /\ Called /\ Last.tool = "echo_message" /\ Last.arg = <<" ", "x", " ">>
    /\ Last.ret = <<"E", "c", "h", "o", ":", " ", " ", "x", " ">>

\* C6: hello_world and greet return their own fixed string on every
\* invocation, whatever was invoked before; neither takes an input nor fails.
C6_GreetingsFixed ==
    \A i \in 1..Len(history) :
        /\ history[i].tool = "hello_world"
              => /\ history[i].ret = HelloWorldExpected
                 /\ history[i].arg = <<>> /\ history[i].raised = ""
        /\ history[i].tool = "greet"
              => /\ history[i].ret = GreetExpected
                 /\ history[i].arg = <<>> /\ history[i].raised = ""

\* greet, then hello_world, and then greet again have returned their strings.
C6_Witness ==
    /\ Len(history) = 3
    /\ history[1].tool = "greet" /\ history[2].tool = "hello_world"
    /\ history[3].tool = "greet"
    /\ history[2].ret = HelloWorldExpected /\ history[3].ret = GreetExpected

\* C7: get_system_info returns a mapping whose keys are exactly
\* python_version, platform, architecture, processor and agent_status, with
\* agent_status "running" whatever the host reports.
C7_SystemInfoKeys ==
    \A i \in 1..Len(history) :
        history[i].tool = "get_system_info"
            => /\ DOMAIN history[i].ret = {"python_version", "platform", "architecture",
                                           "processor", "agent_status"}
               /\ history[i].ret.agent_status = "running"

\* get_system_info has reported a host other than the first.
C7_Witness ==
    /\ Called /\ Last.tool = "get_system_info"
    /\ host.processor = "arm" /\ Last.ret.processor = "arm"
    /\ Last.ret.agent_status = "running"

\* C8: the result of calculate, echo_message, hello_world and greet depends
\* only on the invocation's own argument, whatever was invoked before, and no
\* invocation changes the registered tools or any other shared state.
C8_SameCallSameResult ==
    \A i \in 1..Len(history) : \A j \in 1..Len(history) :
        (/\ history[i].tool = history[j].tool
         /\ history[i].tool # "get_system_info"
         /\ history[i].arg = history[j].arg)
            => /\ history[i].ret = history[j].ret
               /\ history[i].raised = history[j].raised

C8_InvocationsChangeNothing ==
    (pc = "loaded" /\ history' # history)
        => /\ UNCHANGED <<pc, heap, agent, root_agent, host>>
           /\ SubSeq(history', 1, Len(history)) = history

C8_Stateless == []C8_SameCallSameResult /\ [][C8_InvocationsChangeNothing]_vars

\* The same echo_message call before and after an invocation of calculate,
\* and the tools still registered.
C8_Witness ==
    /\ Len(history) = 3
    /\ history[1].tool = "echo_message" /\ history[3].tool = "echo_message"
    /\ history[1].arg = TwoPlusTwo /\ history[3].arg = TwoPlusTwo
    /\ history[2].tool = "calculate" /\ history[2].arg = OneByZero
    /\ Len(ToolsOf(agent)) = 5

\* C9: once the module has loaded, the agent holds exactly the five tools,
\* each once, in the order hello_world, get_system_info, calculate,
\* echo_message, greet, and root_agent is that same agent.
C9_FiveToolsInOrder ==
    pc = "loaded"
        => /\ agent # 0
           /\ Len(heap) = 1
           /\ ToolsOf(agent) = <<"hello_world", "get_system_info", "calculate",
                                 "echo_message", "greet">>
           /\ root_agent = agent
           /\ ToolsOf(root_agent) = ToolsOf(agent)

\* The module has loaded and root_agent exposes the tools.
C9_Witness ==
    pc = "loaded" /\ root_agent # 0 /\ Len(ToolsOf(root_agent)) = 5 /\ history = <<>>

\* C10: the rewriting of "true"/"false" never changes the outcome of the
\* whitelist check: an input containing one of them is rejected and never
\* evaluated, an input that passes the check was left unchanged, and the
\* expression shown in a "Result: ..." string is the input itself.
C10_RewritingKeepsCheck ==
    Calculated =>
        /\ Last.trace[1].op = "check"
        /\ Last.trace[1].ok <=> OnlyWhitelisted(Last.arg)
        /\ (Contains(Last.arg, <<"t", "r", "u", "e">>)
              \/ Contains(Last.arg, <<"f", "a", "l", "s", "e">>))
            => /\ Last.ret = NotAllowedExpected
               /\ \A j \in 1..Len(Last.trace) : Last.trace[j].op # "eval"
        /\ Last.trace[1].ok => Last.expression = Last.arg
        /\ HasAt(Last.ret, <<"R", "e", "s", "u", "l", "t", ":">>, 1)
            => HasAt(Last.ret, <<"R", "e", "s", "u", "l", "t", ":", " ">> \o Last.arg
                               \o <<" ", "=", " ">>, 1)

\* calculate("1/true") has been rejected, rewritten to "1/True", unevaluated.
C10_Witness ==
    /\ Calculated /\ Last.arg = OneByTrue /\ Last.ret = NotAllowedExpected
    /\ Last.expression = <<"1", "/", "T", "r", "u", "e">>
    /\ Len(Last.trace) = 1

====
